---------------------------- MODULE Spec2Model ----------------------------
(***************************************************************************)
(* A model of scripts/validate-evidence-links.py: the evidence-link        *)
(* checker (URL extraction, HEAD-then-GET probing, soft-404 heuristic,     *)
(* retry loop, report).                                                    *)
(*                                                                         *)
(* Text is modelled as a sequence of tokens.  A token is a tag ("<h1>"),   *)
(* a run of one whitespace character (" ") or a word ("404").  The token   *)
(* alphabet is chosen so that the regular expressions of the source match  *)
(* the concatenated characters exactly when the token-level matchers      *)
(* below match the token sequence: "<" and ">" occur only at the ends of   *)
(* tag tokens, and no word is the concatenation of other tokens.           *)
(***************************************************************************)
EXTENDS Integers, Sequences, FiniteSets, TLC

None == "None"

(***************************************************************************)
(* Bounds of the model.                                                    *)
(***************************************************************************)
MaxBodyLen == 3
MaxInnerLen == 5
MaxEntries == 2
MaxRetries == 2
MaxDelay == 2

(***************************************************************************)
(* Program constants.                                                      *)
(***************************************************************************)
\* a variant: every 5xx status taken for transient
RETRYABLE_STATUSES_all_5xx == {408, 429} \cup 500..599

RETRYABLE_STATUSES == {408, 429, 500, 502, 503, 504}

(***************************************************************************)
(* Tokens.                                                                 *)
(***************************************************************************)
H1OpenToks == {"<h1>", "<H1>", "<h1 class=x>"}
H1CloseToks == {"</h1>", "</H1>"}
TitleOpenToks == {"<title>", "<TITLE>"}
TitleCloseToks == {"</title>"}
OtherTagToks == {"<b>", "</b>", "<html>"}
SpaceToks == {" ", "\n"}
\* every other token is a word: "404", "not", "found", "page", "x", ...

\* str.lower() on one token
Lower(t) ==
  CASE t = "<H1>" -> "<h1>"
    [] t = "</H1>" -> "</h1>"
    [] t = "<TITLE>" -> "<title>"
    [] t = "Not" -> "not"
    [] t = "FOUND" -> "found"
    [] t = "Page" -> "page"
    [] t = "TEXT/HTML" -> "text/html"
    [] t = "HTTP" -> "http"
    [] OTHER -> t

\* str.lower() on a text
LowerSeq(s) == [k \in 1..Len(s) |-> Lower(s[k])]

\* TAG_RE = <[^>]+> : the tokens it matches
TAG_RE(t) == t \in H1OpenToks \cup H1CloseToks \cup TitleOpenToks
                   \cup TitleCloseToks \cup OtherTagToks

\* WHITESPACE_RE = \s+ : the tokens a run of it is made of
WHITESPACE_RE(t) == t \in SpaceToks

\* TAG_RE.sub(" ", value)
TagSub(s) == [k \in 1..Len(s) |-> IF TAG_RE(s[k]) THEN " " ELSE s[k]]

RECURSIVE CollapseWs(_)
\* WHITESPACE_RE.sub(" ", value): every maximal run of whitespace becomes " "
CollapseWs(s) ==
  IF s = <<>> THEN <<>>
  ELSE IF WHITESPACE_RE(Head(s))
       THEN IF Len(s) > 1 /\ WHITESPACE_RE(s[2])
            THEN CollapseWs(Tail(s))
            ELSE <<" ">> \o CollapseWs(Tail(s))
       ELSE <<Head(s)>> \o CollapseWs(Tail(s))

\* str.strip() on a text whose whitespace runs are already single blanks
Strip(s) ==
  LET a == IF s # <<>> /\ WHITESPACE_RE(s[1]) THEN Tail(s) ELSE s
  IN  IF a # <<>> /\ WHITESPACE_RE(a[Len(a)]) THEN SubSeq(a, 1, Len(a) - 1) ELSE a

normalize_spaces(value) == Strip(CollapseWs(value))

\* pat in text (substring test)
Contains(text, pat) ==
  \E k \in 0..(Len(text) - Len(pat)) :
     \A m \in 1..Len(pat) : text[k + m] = pat[m]

(***************************************************************************)
(* TITLE_RE = <title[^>]*>(.*?)</title>, IGNORECASE | DOTALL, search():    *)
(* the leftmost opening tag that has a closing tag after it, and the       *)
(* text up to the first closing tag after it (group 1).                    *)
(***************************************************************************)
TitleOpens(html) == {i \in 1..Len(html) : Lower(html[i]) \in TitleOpenToks
                       /\ \E j \in (i + 1)..Len(html) : Lower(html[j]) \in TitleCloseToks}

Min(S) == CHOOSE x \in S : \A y \in S : x <= y

TITLE_RE_search(html) ==
  IF TitleOpens(html) = {} THEN [matched |-> FALSE, group1 |-> <<>>]
  ELSE LET i == Min(TitleOpens(html))
           j == Min({m \in (i + 1)..Len(html) : Lower(html[m]) \in TitleCloseToks})
       IN  [matched |-> TRUE, group1 |-> SubSeq(html, i + 1, j - 1)]

(***************************************************************************)
(* NOT_FOUND_H1_RE =                                                       *)
(*  <h1[^>]*>\s*(404(?:\s+not\s+found)?|page\s+not\s+found|not\s+found)    *)
(*  \s*</h1>, IGNORECASE, search().                                        *)
(***************************************************************************)
H1Alternatives == { <<"404", "not", "found">>, <<"404">>,
                    <<"page", "not", "found">>, <<"not", "found">> }

RECURSIVE SkipWs(_, _)
\* \s* from position k: the position of the first token that is not whitespace
SkipWs(s, k) == IF k <= Len(s) /\ WHITESPACE_RE(s[k]) THEN SkipWs(s, k + 1) ELSE k

RECURSIVE MatchWords(_, _, _)
\* w1\s+w2\s+...wn from position k: the position after the match, 0 if none
MatchWords(s, k, words) ==
  IF k > Len(s) \/ Lower(s[k]) # Head(words) THEN 0
  ELSE IF Len(words) = 1 THEN k + 1
  ELSE IF k + 1 <= Len(s) /\ WHITESPACE_RE(s[k + 1])
       THEN MatchWords(s, SkipWs(s, k + 1), Tail(words))
       ELSE 0

\* a variant: the closing tag need not follow the phrase
H1MatchAt_unanchored(html, i) ==
  /\ Lower(html[i]) \in H1OpenToks
  /\ \E words \in H1Alternatives : MatchWords(html, SkipWs(html, i + 1), words) # 0

H1MatchAt(html, i) ==
  /\ Lower(html[i]) \in H1OpenToks
  /\ \E words \in H1Alternatives :
        LET e == MatchWords(html, SkipWs(html, i + 1), words)
        IN  /\ e # 0
            /\ SkipWs(html, e) <= Len(html)
            /\ Lower(html[SkipWs(html, e)]) \in H1CloseToks

NOT_FOUND_H1_RE_search(html) == \E i \in 1..Len(html) : H1MatchAt(html, i)

not_found_heuristic(html) ==
  IF html = <<>> THEN None
  ELSE LET title_match == TITLE_RE_search(html)
           title_text == normalize_spaces(LowerSeq(TagSub(title_match.group1)))
       IN  IF title_match.matched /\ Contains(title_text, <<"404">>)
              /\ Contains(title_text, <<"not", " ", "found">>)
           THEN "HTML title indicates 404"
           ELSE IF title_match.matched
                   /\ Contains(title_text, <<"page", " ", "not", " ", "found">>)
           THEN "HTML title indicates missing page"
           ELSE IF NOT_FOUND_H1_RE_search(html)
           THEN "HTML h1 indicates missing page"
           ELSE None

(***************************************************************************)
(* Probes.  status = NoStatus stands for status = None (a status code is   *)
(* never 0).  A content type is a token sequence, "" being <<>>.           *)
(***************************************************************************)
NoStatus == 0

(***************************************************************************)
(* A string of the dataset is a record: pad tells whether blanks surround  *)
(* it, scheme and netloc are what precedes and follows "://" (the path is  *)
(* "/x"); the empty string has neither.  str = FALSE is a value that is    *)
(* not a string.  NoUrl stands for final_url = None.                       *)
(***************************************************************************)
NoUrl == [str |-> FALSE, pad |-> FALSE, scheme |-> "None", netloc |-> ""]

max_body_bytes == 131072

is_html(content_type) ==
  LET lowered == LowerSeq(content_type)
  IN  Contains(lowered, <<"text/html">>) \/ Contains(lowered, <<"application/xhtml+xml">>)

\* raw.decode(...) of an ASCII body: the same text for every charset tried
decode_body(raw, content_type) == IF raw = <<>> THEN <<>> ELSE raw

\* response.read(n): at most n units of the body
Read(raw, n) == SubSeq(raw, 1, IF Len(raw) < n THEN Len(raw) ELSE n)

HttpText(code) == "HTTP " \o ToString(code)

(***************************************************************************)
(* fetch: `out` is what urlopen did with the request: it returned a        *)
(* response (kind "response"), raised HTTPError (kind "HTTPError"), raised *)
(* URLError, socket.timeout, TimeoutError or another OSError (kind         *)
(* "URLError"), or raised an exception outside these classes, such as      *)
(* http.client.HTTPException on a malformed response (kind                 *)
(* "HTTPException"); the last one is not caught by fetch.                  *)
(***************************************************************************)
FetchRaises(out) == out.kind = "HTTPException"

fetch(url, method, out) ==
  IF out.kind = "response"
  THEN [status |-> out.code, method |-> method, final_url |-> out.final_url,
        content_type |-> out.content_type,
        body |-> decode_body(IF method = "GET" THEN Read(out.raw, max_body_bytes) ELSE <<>>,
                             out.content_type),
        error |-> None]
  ELSE IF out.kind = "HTTPError"
  THEN [status |-> out.code, method |-> method, final_url |-> out.final_url,
        content_type |-> out.content_type,
        body |-> decode_body(IF method = "GET" THEN Read(out.raw, max_body_bytes) ELSE <<>>,
                             out.content_type),
        error |-> HttpText(out.code)]
  ELSE [status |-> NoStatus, method |-> method, final_url |-> NoUrl,
        content_type |-> <<>>, body |-> <<>>,
        error |-> out.reason]

(***************************************************************************)
(* evaluate_probe.  ret is the UrlResult returned; inspected lists the     *)
(* bodies handed to not_found_heuristic during the call.                   *)
(***************************************************************************)
\* a variant: the method of the probe is not looked at
heuristic_consulted_any_method(probe) == is_html(probe.content_type)

\* line 162
heuristic_consulted(probe) == probe.method = "GET" /\ is_html(probe.content_type)

evaluate_probe_run(probe) ==
  IF probe.status = NoStatus
  THEN [ret |-> [ok |-> FALSE, method |-> probe.method, status |-> NoStatus,
                 detail |-> IF probe.error \in {None, ""} THEN "network failure"
                            ELSE probe.error,
                 retryable |-> TRUE, final_url |-> probe.final_url],
        inspected |-> <<>>]
  ELSE IF probe.status >= 400
  THEN [ret |-> [ok |-> FALSE, method |-> probe.method, status |-> probe.status,
                 detail |-> IF probe.error \in {None, ""} THEN HttpText(probe.status)
                            ELSE probe.error,
                 retryable |-> probe.status \in RETRYABLE_STATUSES,
                 final_url |-> probe.final_url],
        inspected |-> <<>>]
  ELSE LET consulted == heuristic_consulted(probe)
           heuristic == IF consulted THEN not_found_heuristic(probe.body) ELSE None
           inspected == IF consulted THEN <<probe.body>> ELSE <<>>
       IN  IF consulted /\ heuristic \notin {None, ""}
           THEN [ret |-> [ok |-> FALSE, method |-> probe.method, status |-> probe.status,
                          detail |-> heuristic, retryable |-> FALSE,
                          final_url |-> probe.final_url],
                 inspected |-> inspected]
           ELSE [ret |-> [ok |-> TRUE, method |-> probe.method, status |-> probe.status,
                          detail |-> "ok", retryable |-> FALSE,
                          final_url |-> probe.final_url],
                 inspected |-> inspected]

evaluate_probe(probe) == evaluate_probe_run(probe).ret

(***************************************************************************)
(* check_once, lines 186-196: what it does once the probes are there.      *)
(***************************************************************************)
\* a variant: the test of the content type is inverted
head_suffices_inverted(head_probe, head_result) ==
  head_result.ok /\ is_html(head_probe.content_type)

\* a variant: the content type is not looked at
head_suffices_ok_only(head_probe, head_result) == head_result.ok

\* line 186: the HEAD verdict is returned without a GET
head_suffices(head_probe, head_result) ==
  head_result.ok /\ ~is_html(head_probe.content_type)

\* a variant: the GET verdict keeps its label
relabel_none(head_result, get_result) == get_result

\* lines 190-193: the method label of the GET verdict
relabel(head_result, get_result) ==
  IF head_result.ok THEN [get_result EXCEPT !.method = "GET (verify-html)"]
  ELSE IF get_result.method = "GET" THEN [get_result EXCEPT !.method = "GET (fallback)"]
  ELSE get_result

\* a variant: the GET verdict is always returned
check_once_return_get(head_probe, head_result, get_probe, get_result) == get_result

\* a variant: the HEAD verdict of the tie-break is as retryable as the GET's
check_once_return_retryable_get(head_probe, head_result, get_probe, get_result) ==
  IF ~get_result.ok /\ head_probe.status # NoStatus /\ head_probe.status >= 400
     /\ get_probe.status = NoStatus
  THEN [head_result EXCEPT !.retryable = get_result.retryable]
  ELSE get_result

\* a variant: the HEAD verdict of the tie-break takes the status of the GET
check_once_return_get_status(head_probe, head_result, get_probe, get_result) ==
  IF ~get_result.ok /\ head_probe.status # NoStatus /\ head_probe.status >= 400
     /\ get_probe.status = NoStatus
  THEN [head_result EXCEPT !.status = get_result.status]
  ELSE get_result

\* lines 194-196
check_once_return(head_probe, head_result, get_probe, get_result) ==
  IF ~get_result.ok /\ head_probe.status # NoStatus /\ head_probe.status >= 400
     /\ get_probe.status = NoStatus
  THEN head_result
  ELSE get_result

(***************************************************************************)
(* load_unique_urls.  The dataset is the flattened list of the entries of  *)
(* every rule's evidence.source_urls, in file order, each with the         *)
(* rule's id (rule.get('id', '<unknown>')).                                *)
(***************************************************************************)
\* str.strip()
strip(raw) == [raw EXCEPT !.pad = FALSE]

\* urlparse(url): the scheme is lower-cased
urlparse(url) == [scheme |-> Lower(url.scheme), netloc |-> url.netloc]

EmptyString(url) == url.scheme = "" /\ url.netloc = ""

\* the entries added to `invalid`: f"{id}: <what>", url being the quoted text
InvalidMsg(rule, what, url) == [rule |-> rule, what |-> what, url |-> url]

\* a variant: the scheme is not looked at
invalid_url_host_only(parsed) == parsed.netloc = ""

\* line 232
invalid_url(parsed) == parsed.scheme \notin {"http", "https"} \/ parsed.netloc = ""

\* lines 224-235: one entry; acc is [urls, invalid]
load_entry(acc, rule, raw) ==
  IF ~raw.str
  THEN [acc EXCEPT !.invalid = @ \cup {InvalidMsg(rule, "non-string URL entry", NoUrl)}]
  ELSE LET url == strip(raw)
           parsed == urlparse(url)
       IN  IF EmptyString(url)
           THEN [acc EXCEPT !.invalid = @ \cup {InvalidMsg(rule, "empty URL entry", NoUrl)}]
           ELSE IF invalid_url(parsed)
           THEN [acc EXCEPT !.invalid = @ \cup {InvalidMsg(rule, "invalid URL", url)}]
           ELSE [acc EXCEPT !.urls = @ \cup {url}]

RECURSIVE load_loop(_, _)
load_loop(acc, data) ==
  IF data = <<>> THEN acc
  ELSE load_loop(load_entry(acc, Head(data).rule, Head(data).raw), Tail(data))

(***************************************************************************)
(* sorted(): the order of Python strings (by code point) on the texts of   *)
(* the model.  "<" < "H" < "R" < "f" < "h"; "http:" < "https"; an empty    *)
(* netloc is followed by "/", which precedes every letter.                 *)
(***************************************************************************)
SchemeRank(x) ==
  CASE x = "" -> 0 [] x = "HTTP" -> 1 [] x = "None" -> 2 [] x = "ftp" -> 3
    [] x = "http" -> 4 [] x = "https" -> 5

NetlocRank(x) ==
  CASE x = "" -> 0 [] x = "a.example" -> 1 [] x = "b.example" -> 2 [] x = "r.example" -> 3

RuleRank(x) == CASE x = "<unknown>" -> 0 [] x = "R1" -> 1 [] x = "R2" -> 2

WhatRank(x) ==
  CASE x = "empty URL entry" -> 0 [] x = "invalid URL" -> 1 [] x = "non-string URL entry" -> 2

RECURSIVE LexLess(_, _)
LexLess(a, b) ==
  IF a = <<>> \/ b = <<>> THEN a = <<>> /\ b # <<>>
  ELSE IF Head(a) # Head(b) THEN Head(a) < Head(b)
  ELSE LexLess(Tail(a), Tail(b))

UrlKey(u) == <<SchemeRank(u.scheme), NetlocRank(u.netloc)>>

MsgKey(m) == <<RuleRank(m.rule), WhatRank(m.what)>> \o UrlKey(m.url)

SortKey(x) == IF "what" \in DOMAIN x THEN MsgKey(x) ELSE UrlKey(x)

\* a variant: the other way round
sorted_descending(S) ==
  [i \in 1..Cardinality(S) |->
     CHOOSE x \in S : Cardinality({y \in S : LexLess(SortKey(x), SortKey(y))}) = i - 1]

\* sorted(S): the i-th is the one with i - 1 before it
sorted(S) ==
  [i \in 1..Cardinality(S) |->
     CHOOSE x \in S : Cardinality({y \in S : LexLess(SortKey(y), SortKey(x))}) = i - 1]

\* a variant: the URLs are kept in a list, one element per entry citing them
load_unique_urls_list(data) ==
  LET acc == load_loop([urls |-> {}, invalid |-> {}], data)
      cited == SelectSeq(data, LAMBDA e : e.raw.str /\ strip(e.raw) \in acc.urls)
  IN  [urls |-> [k \in 1..Len(cited) |-> strip(cited[k].raw)],
       invalid |-> sorted(acc.invalid)]

load_unique_urls(data) ==
  LET acc == load_loop([urls |-> {}, invalid |-> {}], data)
  IN  [urls |-> sorted(acc.urls), invalid |-> sorted(acc.invalid)]

(***************************************************************************)
(* The state.                                                              *)
(***************************************************************************)
VARIABLES
  dataset,          \* the entries of the rules file (read by load_unique_urls)
  retries,          \* args.retries
  retry_delay,      \* args.retry_delay, in seconds
  pc,               \* where the program is
  urls,             \* main: urls
  invalid_entries,  \* main: invalid_entries
  idx,              \* main: position of the running for loop in its list
  broken,           \* main: broken
  ok,               \* main: ok
  printed,          \* standard output, a line per element
  exit_code,        \* the value main returns to sys.exit (-1: still running)
  attempt,          \* check_with_retries: attempt
  result,           \* check_with_retries: result
  returned,         \* check_with_retries: the attempt count it returned
  head_probe,       \* check_once: head_probe
  head_result,      \* check_once: head_result
  get_probe,        \* check_once: get_probe
  events,           \* history of the running check_with_retries call
  requested,        \* history: the URLs fetch was called with
  checked,          \* history: the URLs check_with_retries was called with
  no_status_only,   \* history: every request so far failed without a status
  html,             \* not_found_heuristic alone: its argument
  reason,           \* not_found_heuristic alone: its value
  probe,            \* evaluate_probe alone: its argument
  verdict           \* evaluate_probe alone: its value

vars == <<dataset, retries, retry_delay, pc, urls, invalid_entries, idx, broken, ok,
          printed, exit_code, attempt, result, returned, head_probe, head_result,
          get_probe, events, requested, checked, no_status_only, html, reason, probe,
          verdict>>

args == <<dataset, retries, retry_delay>>
main_vars == <<urls, invalid_entries, idx, broken, ok, printed, exit_code>>
check_vars == <<attempt, result, returned, head_probe, head_result, get_probe>>
history == <<events, requested, checked, no_status_only>>
pure_vars == <<html, reason, probe, verdict>>

(***************************************************************************)
(* Inputs.                                                                 *)
(***************************************************************************)
Str(scheme, netloc, pad) ==
  [str |-> TRUE, pad |-> pad, scheme |-> scheme, netloc |-> netloc]

NonString == [str |-> FALSE, pad |-> FALSE, scheme |-> "", netloc |-> ""]
UrlA == Str("http", "a.example", FALSE)
UrlB == Str("https", "b.example", FALSE)
Redirected == Str("https", "r.example", FALSE)

Entry(rule, raw) == [rule |-> rule, raw |-> raw]

\* the entries a dataset is made of
Entries == { Entry("R1", NonString), Entry("R2", NonString),
             Entry("R1", Str("", "", TRUE)),
             Entry("R1", Str("ftp", "a.example", FALSE)),
             Entry("R2", Str("http", "", FALSE)),
             Entry("R1", UrlA), Entry("R2", Str("http", "a.example", TRUE)),
             Entry("R2", UrlB) }

SeqsUpTo(S, n) == UNION {[1..k -> S] : k \in 0..n}

\* a rules file whose entries are in neither order of the report
MixedDataset ==
  << Entry("R2", UrlB), Entry("R2", NonString), Entry("R1", UrlA),
     Entry("R1", Str("ftp", "a.example", FALSE)), Entry("R1", NonString) >>

Datasets == SeqsUpTo(Entries, MaxEntries) \cup {MixedDataset}

\* the datasets of the specification of one check
CheckDatasets == { <<Entry("R1", UrlA)>>,
                   <<Entry("R1", Str("ftp", "a.example", FALSE)), Entry("R2", UrlA)>> }

\* --retry-delay: default=1.0
DefaultDelay == 1

RetriesArgs == (-1)..MaxRetries
DelayArgs == 0..MaxDelay

PagePlain == <<"<title>", "x", "</title>", "<h1>", "x", "</h1>">>
PageTitle404 == <<"<html>", "<title>", "404", " ", "Not", " ", "found", "</title>">>
PageTitleMissing == <<"<title>", "x", " ", "page", " ", "not", " ", "found", "</title>">>
PageH1 == <<"<h1>", "Page", " ", "not", " ", "found", "</h1>">>
PageH1Longer == <<"<h1>", "x", " ", "page", " ", "not", " ", "found", "</h1>">>

Html == <<"text/html">>
HtmlUpper == <<"TEXT/HTML", "; charset=utf-8">>
Xhtml == <<"application/xhtml+xml">>
Plain == <<"text/plain">>

Outcome(kind, code, final_url, content_type, raw, why) ==
  [kind |-> kind, code |-> code, final_url |-> final_url,
   content_type |-> content_type, raw |-> raw, reason |-> why]

Timeout == Outcome("URLError", 0, NoUrl, <<>>, <<>>, "TimeoutError: timed out")
DnsFailure == Outcome("URLError", 0, NoUrl, <<>>, <<>>,
                      "URLError: [Errno -2] Name or service not known")
Malformed == Outcome("HTTPException", 0, NoUrl, <<>>, <<>>, "BadStatusLine")

\* what urlopen may do with a request for url: the wide set
WideOutcomes(url, method) ==
  { Outcome("response", 200, f, ct, raw, "") :
      f \in {url, Redirected}, ct \in {Html, HtmlUpper, Plain, <<>>},
      raw \in IF method = "GET"
              THEN {<<>>, PagePlain, PageTitle404, PageH1, PageH1Longer}
              ELSE {<<>>} }
  \cup { Outcome("HTTPError", code, url, ct, raw, "") :
      code \in {404, 405, 429, 503}, ct \in {Html, Plain},
      raw \in IF method = "GET" THEN {<<>>, PageTitle404} ELSE {<<>>} }
  \cup {Timeout, DnsFailure, Malformed}

\* the narrow set
NarrowOutcomes(url, method) ==
  IF method = "HEAD"
  THEN { Outcome("response", 200, url, Plain, <<>>, ""),
         Outcome("HTTPError", 404, url, Html, <<>>, ""),
         DnsFailure, Malformed }
  ELSE { Outcome("response", 200, url, Html, PagePlain, ""),
         Outcome("response", 200, Redirected, Html, PageTitle404, ""),
         Outcome("HTTPError", 503, url, Html, <<>>, ""),
         DnsFailure }

\* what urlopen may do for the request: the wide set when checking one
\* URL in depth, the narrow set when running the whole of main
Outcomes(wide, url, method) ==
  IF wide THEN WideOutcomes(url, method) ELSE NarrowOutcomes(url, method)

(***************************************************************************)
(* Values of the variables that are not in use.                            *)
(***************************************************************************)
Uninitialized ==
  [ok |-> FALSE, method |-> "HEAD", status |-> NoStatus, detail |-> "uninitialized",
   retryable |-> TRUE, final_url |-> NoUrl]

NoProbe ==
  [status |-> NoStatus, method |-> "", final_url |-> NoUrl, content_type |-> <<>>,
   body |-> <<>>, error |-> None]

PureIdle ==
  /\ html = <<>>
  /\ reason = None
  /\ probe = NoProbe
  /\ verdict = Uninitialized

Start(at) ==
  /\ pc = at
  /\ urls = <<>>
  /\ invalid_entries = <<>>
  /\ idx = 0
  /\ broken = 0
  /\ ok = 0
  /\ printed = <<>>
  /\ exit_code = -1
  /\ attempt = 0
  /\ result = Uninitialized
  /\ returned = 0
  /\ head_probe = NoProbe
  /\ head_result = Uninitialized
  /\ get_probe = NoProbe
  /\ events = <<>>
  /\ requested = {}
  /\ checked = <<>>
  /\ no_status_only = TRUE

\* the state when main is entered, for a whole run
Init ==
  /\ dataset \in Datasets
  /\ retries \in RetriesArgs
  /\ retry_delay = DefaultDelay
  /\ Start("load")
  /\ PureIdle

\* the same, for the runs that look at one check closely
InitCheck ==
  /\ dataset \in CheckDatasets
  /\ retries \in RetriesArgs
  /\ retry_delay \in DelayArgs
  /\ Start("load")
  /\ PureIdle

(***************************************************************************)
(* main.                                                                   *)
(***************************************************************************)
\* the history: check_once was called in attempt n ("check_once"), a request
\* was sent ("HEAD", "GET"), not_found_heuristic was called with the body of
\* the probe ("inspect HEAD", "inspect GET"), time.sleep(n) was called ("sleep")
Event(ev, n) == [ev |-> ev, n |-> n]

\* the history: check_once returned res in attempt n
Verdict(n, res) ==
  Event(IF res.ok THEN "ok" ELSE IF res.retryable THEN "retryable failure"
        ELSE "permanent failure", n)

Inspections(method, n, inspected) ==
  [k \in 1..Len(inspected) |-> Event("inspect " \o method, n)]

ParseLine(entry) == [line |-> "parse", marker |-> "BROKEN", status |-> "-", entry |-> entry]

\* a variant: the status is printed as it is, absent or not
UrlLine_status_as_is(url, res, att) ==
  [line |-> "url", marker |-> IF res.ok THEN "OK" ELSE "BROKEN",
   status |-> ToString(res.status), method |-> res.method, url |-> url,
   detail |-> IF res.ok THEN "" ELSE res.detail, attempts |-> IF res.ok THEN 0 ELSE att,
   redirect |-> IF res.final_url # NoUrl /\ res.final_url # url THEN res.final_url ELSE NoUrl]

\* lines 272-279
UrlLine(url, res, att) ==
  LET status == IF res.status # NoStatus THEN ToString(res.status) ELSE "-"
      redirect == IF res.final_url # NoUrl /\ res.final_url # url
                  THEN res.final_url ELSE NoUrl
  IN  IF res.ok
      THEN [line |-> "url", marker |-> "OK", status |-> status, method |-> res.method,
            url |-> url, detail |-> "", attempts |-> 0, redirect |-> redirect]
      ELSE [line |-> "url", marker |-> "BROKEN", status |-> status, method |-> res.method,
            url |-> url, detail |-> res.detail, attempts |-> att, redirect |-> redirect]

SummaryLine(total, n_ok, n_broken) ==
  [line |-> "summary", checked |-> total, ok |-> n_ok, broken |-> n_broken]

\* line 256
Load ==
  /\ pc = "load"
  /\ urls' = load_unique_urls(dataset).urls
  /\ invalid_entries' = load_unique_urls(dataset).invalid
  /\ idx' = 1
  /\ pc' = "invalid"
  /\ UNCHANGED <<args, broken, ok, printed, exit_code, check_vars, history, pure_vars>>

\* lines 260-262: one turn of the loop
PrintInvalid ==
  /\ pc = "invalid"
  /\ idx <= Len(invalid_entries)
  /\ broken' = broken + 1
  /\ printed' = Append(printed, ParseLine(invalid_entries[idx]))
  /\ idx' = idx + 1
  /\ UNCHANGED <<args, pc, urls, invalid_entries, ok, exit_code, check_vars, history,
                 pure_vars>>

\* the loop of line 260 is over
InvalidDone ==
  /\ pc = "invalid"
  /\ idx > Len(invalid_entries)
  /\ idx' = 1
  /\ pc' = "urls"
  /\ UNCHANGED <<args, urls, invalid_entries, broken, ok, printed, exit_code, check_vars,
                 history, pure_vars>>

\* lines 264-265 and 202-204: check_with_retries is called for the next URL
StartCheck ==
  /\ pc = "urls"
  /\ idx <= Len(urls)
  /\ checked' = Append(checked, urls[idx])
  /\ result' = Uninitialized
  /\ IF retries + 1 >= 1
     THEN /\ attempt' = 1
          /\ returned' = 0
          /\ pc' = "head"
     ELSE /\ attempt' = 0
          /\ returned' = retries + 1
          /\ pc' = "report"
  /\ UNCHANGED <<args, main_vars, head_probe, head_result, get_probe, events, requested,
                 no_status_only, pure_vars>>

\* lines 205, 184-187: check_once is called and sends the HEAD request
FetchHead(wide) ==
  /\ pc = "head"
  /\ \E out \in Outcomes(wide, urls[idx], "HEAD") :
       /\ requested' = requested \cup {urls[idx]}
       /\ no_status_only' = (no_status_only /\ out.kind = "URLError")
       /\ IF FetchRaises(out)
          THEN /\ pc' = "raised"
               /\ events' = events \o <<Event("check_once", attempt), Event("HEAD", attempt)>>
               /\ UNCHANGED <<head_probe, head_result, result>>
          ELSE LET hp == fetch(urls[idx], "HEAD", out)
                   run == evaluate_probe_run(hp)
               IN  /\ head_probe' = hp
                   /\ head_result' = run.ret
                   /\ IF head_suffices(hp, run.ret)
                      THEN /\ result' = run.ret
                           /\ events' = events \o <<Event("check_once", attempt),
                                                    Event("HEAD", attempt)>>
                                        \o Inspections("HEAD", attempt, run.inspected)
                                        \o <<Verdict(attempt, run.ret)>>
                           /\ pc' = "decide"
                      ELSE /\ result' = result
                           /\ events' = events \o <<Event("check_once", attempt),
                                                    Event("HEAD", attempt)>>
                                        \o Inspections("HEAD", attempt, run.inspected)
                           /\ pc' = "get"
  /\ UNCHANGED <<args, main_vars, attempt, returned, get_probe, checked, pure_vars>>

\* lines 188-196: check_once sends the GET request and returns
FetchGet(wide) ==
  /\ pc = "get"
  /\ \E out \in Outcomes(wide, urls[idx], "GET") :
       /\ no_status_only' = (no_status_only /\ out.kind = "URLError")
       /\ IF FetchRaises(out)
          THEN /\ pc' = "raised"
               /\ events' = Append(events, Event("GET", attempt))
               /\ UNCHANGED <<get_probe, result>>
          ELSE LET gp == fetch(urls[idx], "GET", out)
                   run == evaluate_probe_run(gp)
                   get_result == relabel(head_result, run.ret)
                   res == check_once_return(head_probe, head_result, gp, get_result)
               IN  /\ get_probe' = gp
                   /\ events' = Append(events, Event("GET", attempt))
                                \o Inspections("GET", attempt, run.inspected)
                                \o <<Verdict(attempt, res)>>
                   /\ result' = res
                   /\ pc' = "decide"
  /\ UNCHANGED <<args, main_vars, attempt, returned, head_probe, head_result, requested,
                 checked, pure_vars>>

\* a variant: one attempt fewer
retry_again_short(res, att, attempts) == res.retryable /\ att + 1 < attempts

\* a variant: every failure is retried
retry_again_any(res, att, attempts) == att < attempts

\* a variant: no failure is retried
retry_again_never(res, att, attempts) == FALSE

\* a variant: one attempt more
retry_again_one_more(res, att, attempts) == res.retryable /\ att < attempts + 1

\* line 208: the loop goes on
retry_again(res, att, attempts) == res.retryable /\ att < attempts

\* a variant: the attempts are numbered in steps of two
next_attempt_by_two(att) == att + 2

\* line 204: range(1, attempts + 1) gives the next attempt
next_attempt(att) == att + 1

\* lines 206-211: the turn of the loop after check_once has returned; the
\* locals of check_once are gone
Decide ==
  /\ pc = "decide"
  /\ IF result.ok
     THEN /\ returned' = attempt
          /\ pc' = "report"
          /\ UNCHANGED <<attempt, events>>
     ELSE IF retry_again(result, attempt, retries + 1)
     THEN /\ events' = Append(events, Event("sleep", retry_delay * attempt))
          /\ attempt' = next_attempt(attempt)
          /\ pc' = "head"
          /\ UNCHANGED returned
     ELSE /\ returned' = attempt
          /\ pc' = "report"
          /\ UNCHANGED <<attempt, events>>
  /\ head_probe' = NoProbe
  /\ head_result' = Uninitialized
  /\ get_probe' = NoProbe
  /\ UNCHANGED <<args, main_vars, result, requested, checked, no_status_only, pure_vars>>

\* lines 272-279: the line of the URL; the turn of the loop of line 264 ends
Report ==
  /\ pc = "report"
  /\ printed' = Append(printed, UrlLine(urls[idx], result, returned))
  /\ IF result.ok
     THEN ok' = ok + 1 /\ broken' = broken
     ELSE broken' = broken + 1 /\ ok' = ok
  /\ idx' = idx + 1
  /\ pc' = "urls"
  /\ attempt' = 0
  /\ result' = Uninitialized
  /\ returned' = 0
  /\ events' = <<>>
  /\ UNCHANGED <<args, urls, invalid_entries, exit_code, head_probe, head_result,
                 get_probe, requested, checked, no_status_only, pure_vars>>

\* a variant: the exit status is always 0
exit_status_zero(n_broken) == 0

\* line 283: 1 if broken else 0
exit_status(n_broken) == IF n_broken # 0 THEN 1 ELSE 0

\* lines 281-283
Summary ==
  /\ pc = "urls"
  /\ idx > Len(urls)
  /\ printed' = Append(printed, SummaryLine(Len(urls) + Len(invalid_entries), ok, broken))
  /\ exit_code' = exit_status(broken)
  /\ pc' = "done"
  /\ UNCHANGED <<args, urls, invalid_entries, idx, broken, ok, check_vars, history,
                 pure_vars>>

\* an exception fetch does not catch leaves main: traceback, exit status 1
Crash ==
  /\ pc = "raised"
  /\ exit_code' = 1
  /\ pc' = "crashed"
  /\ UNCHANGED <<args, urls, invalid_entries, idx, broken, ok, printed, check_vars,
                 history, pure_vars>>

Next ==
  \/ Load
  \/ PrintInvalid
  \/ InvalidDone
  \/ StartCheck
  \/ FetchHead(FALSE)
  \/ FetchGet(FALSE)
  \/ Decide
  \/ Report
  \/ Summary
  \/ Crash

NextCheck ==
  \/ Load
  \/ PrintInvalid
  \/ InvalidDone
  \/ StartCheck
  \/ FetchHead(TRUE)
  \/ FetchGet(TRUE)
  \/ Decide
  \/ Report
  \/ Summary
  \/ Crash

Spec == Init /\ [][Next]_vars

SpecCheck == InitCheck /\ [][NextCheck]_vars

(***************************************************************************)
(* not_found_heuristic alone, on every body of Bodies.                     *)
(***************************************************************************)
GeneralToks == {"<h1>", "</h1>", "<title>", "</title>", "404", " "}
InnerToks == {" ", "404", "Not", "found", "page", "<b>", "x"}

Bodies ==
  SeqsUpTo(GeneralToks, MaxBodyLen)
  \cup { <<"<h1>">> \o inner \o <<"</H1>">> : inner \in SeqsUpTo(InnerToks, MaxInnerLen) }
  \cup { <<"<TITLE>">> \o inner \o <<"</title>", "<h1 class=x>", "\n", "404", "</h1>">> :
           inner \in SeqsUpTo(InnerToks, MaxInnerLen) }
  \cup { PagePlain, PageTitle404, PageTitleMissing, PageH1, PageH1Longer }

InitHeuristic ==
  /\ html \in Bodies
  /\ reason = "pending"
  /\ probe = NoProbe
  /\ verdict = Uninitialized
  /\ dataset = <<>>
  /\ retries = 0
  /\ retry_delay = 0
  /\ Start("heuristic")

Heuristic ==
  /\ pc = "heuristic"
  /\ reason' = not_found_heuristic(html)
  /\ pc' = "heuristic done"
  /\ UNCHANGED <<args, main_vars, check_vars, history, html, probe, verdict>>
SpecHeuristic == InitHeuristic /\ [][Heuristic]_vars

(***************************************************************************)
(* evaluate_probe alone, on every probe of Probes.                         *)
(***************************************************************************)
Statuses == {NoStatus} \cup 100..599

Probes ==
  [status : Statuses, method : {"HEAD", "GET"}, final_url : {NoUrl, UrlA},
   content_type : {Html, HtmlUpper, Xhtml, Plain, <<>>},
   body : {<<>>, PagePlain, PageTitle404, PageH1},
   error : {None, "HTTP error"}]

InitProbe ==
  /\ probe \in Probes
  /\ verdict = Uninitialized
  /\ html = <<>>
  /\ reason = None
  /\ dataset = <<>>
  /\ retries = 0
  /\ retry_delay = 0
  /\ Start("evaluate")

Evaluate ==
  /\ pc = "evaluate"
  /\ verdict' = evaluate_probe_run(probe).ret
  /\ events' = Inspections(probe.method, 0, evaluate_probe_run(probe).inspected)
  /\ pc' = "evaluated"
  /\ UNCHANGED <<args, main_vars, check_vars, requested, checked, no_status_only, html,
                 reason, probe>>

SpecProbe == InitProbe /\ [][Evaluate]_vars

(***************************************************************************)
(* What the properties below read off the history.                         *)
(***************************************************************************)
Range(s) == {s[k] : k \in 1..Len(s)}

\* the requests of attempt n, in order
Requests(n) == SelectSeq(events, LAMBDA e : e.ev \in {"HEAD", "GET"} /\ e.n = n)

GetIssued(n) == Event("GET", n) \in Range(events)

GetInspected(n) == Event("inspect GET", n) \in Range(events)

\* the check_once calls and the sleeps, in order
Steps == SelectSeq(events, LAMBDA e : e.ev \in {"check_once", "sleep"})

\* what the check_once calls returned, in order
Verdicts ==
  SelectSeq(events, LAMBDA e : e.ev \in {"ok", "retryable failure", "permanent failure"})

(***************************************************************************)
(* C1: for retries = r >= 0, when every attempt ends in a retryable        *)
(* failure, check_with_retries makes exactly r + 1 check_once calls and    *)
(* r sleeps, the k-th sleep of retry_delay * k seconds between attempt k   *)
(* and attempt k + 1, none after the last attempt, and returns r + 1 as    *)
(* the attempt count.                                                      *)
(***************************************************************************)
C1_Expected(r, d) ==
  [k \in 1..(2 * r + 1) |->
     IF k % 2 = 1 THEN Event("check_once", (k + 1) \div 2)
     ELSE Event("sleep", d * (k \div 2))]

C1_AllRetryable ==
  \A k \in 1..Len(Verdicts) : Verdicts[k] = Event("retryable failure", k)

C1_RetryableFailuresExhaustAttempts ==
  (pc = "report" /\ retries >= 0 /\ C1_AllRetryable)
    => /\ returned = retries + 1
       /\ Len(Verdicts) = retries + 1
       /\ Steps = C1_Expected(retries, retry_delay)

C1_Witness ==
  /\ pc = "report"
  /\ retries >= 1
  /\ retry_delay >= 1
  /\ C1_AllRetryable
  /\ result.status = NoStatus
  /\ returned = retries + 1
  /\ Event("sleep", retry_delay * retries) \in Range(events)

(***************************************************************************)
(* C2: an attempt whose verdict is a failure that is not retryable (a soft  *)
(* 404, or a status >= 400 outside 408, 429, 500, 502, 503, 504) ends the  *)
(* loop: the step after check_once returned it is the return of            *)
(* check_with_retries, with that verdict and the attempt count of that     *)
(* attempt, and no check_once call, request or sleep in between.           *)
(***************************************************************************)
C2_NonRetryable(res) ==
  /\ ~res.ok
  /\ res.status # NoStatus
  /\ res.status < 400 \/ res.status \notin {408, 429, 500, 502, 503, 504}

C2_PermanentFailureEndsLoop ==
  [][(pc = "decide" /\ C2_NonRetryable(result))
       => /\ pc' = "report"
          /\ result' = result
          /\ returned' = attempt
          /\ events' = events
          /\ requested' = requested]_vars

C2_Witness ==
  /\ pc = "report"
  /\ retries >= 1
  /\ returned = 1
  /\ C2_NonRetryable(result)
  /\ result.status = 404
  /\ Steps = <<Event("check_once", 1)>>

(***************************************************************************)
(* C3: when the HEAD response has a status < 400 and a content type that   *)
(* is not HTML, the attempt sends exactly one request, the HEAD, and       *)
(* check_once returns the HEAD verdict as it is; no GET is sent.           *)
(***************************************************************************)
C3_HeadOkNotHtml ==
  /\ head_probe.method = "HEAD"
  /\ head_probe.status # NoStatus
  /\ head_probe.status < 400
  /\ ~is_html(head_probe.content_type)

C3_HeadAloneWhenNotHtml ==
  C3_HeadOkNotHtml
    => /\ pc = "decide"
       /\ Requests(attempt) = <<Event("HEAD", attempt)>>
       /\ result = head_result
       /\ result.method = "HEAD"
       /\ result.status = head_probe.status
       /\ result.ok

C3_Witness ==
  /\ pc = "decide"
  /\ C3_HeadOkNotHtml
  /\ head_probe.content_type = Plain
  /\ Requests(attempt) = <<Event("HEAD", attempt)>>

(***************************************************************************)
(* C4: when the HEAD attempt failed with a status >= 400 and the GET       *)
(* attempt has no status (network failure), check_once returns the HEAD    *)
(* verdict: HEAD's status, HEAD's detail, method HEAD.                     *)
(***************************************************************************)
C4_HeadErrorBeatsGetNetworkFailure ==
  (pc = "decide" /\ head_probe.status >= 400 /\ GetIssued(attempt)
     /\ get_probe.status = NoStatus)
    => /\ result = head_result
       /\ result.method = "HEAD"
       /\ result.status = head_probe.status
       /\ result.detail = HttpText(head_probe.status)

C4_Witness ==
  /\ pc = "decide"
  /\ head_probe.status = 404
  /\ GetIssued(attempt)
  /\ get_probe.status = NoStatus
  /\ get_probe.error = "TimeoutError: timed out"
  /\ result.status = 404

(***************************************************************************)
(* C5: when a GET was sent and it is not the case that HEAD has a status   *)
(* >= 400 while GET has none, check_once returns the GET verdict, labelled *)
(* "GET (verify-html)" when the HEAD verdict was successful and            *)
(* "GET (fallback)" when it failed; no verdict check_once returns has      *)
(* the method "GET".                                                       *)
(***************************************************************************)
C5_GetVerdictLabelled ==
  pc = "decide"
    => /\ result.method # "GET"
       /\ (GetIssued(attempt) /\ ~(head_probe.status >= 400 /\ get_probe.status = NoStatus))
            => /\ result = [evaluate_probe(get_probe) EXCEPT
                              !.method = IF head_result.ok THEN "GET (verify-html)"
                                         ELSE "GET (fallback)"]
               /\ result.method = "GET (verify-html)" <=> head_result.ok
               /\ result.method = "GET (fallback)" <=> ~head_result.ok

C5_Witness ==
  /\ pc = "decide"
  /\ GetIssued(attempt)
  /\ head_result.ok
  /\ result.method = "GET (verify-html)"
  /\ ~result.ok

(***************************************************************************)
(* C6: evaluate_probe makes every probe with status >= 400 a failure that  *)
(* is retryable exactly when the status is one of 408, 429, 500, 502, 503, *)
(* 504, whatever the method, the content type and the body.                *)
(***************************************************************************)
C6_RetryableIffTransientStatus ==
  (pc = "evaluated" /\ probe.status >= 400)
    => /\ ~verdict.ok
       /\ verdict.retryable <=> probe.status \in {408, 429, 500, 502, 503, 504}

C6_Witness ==
  /\ pc = "evaluated"
  /\ probe.status = 404
  /\ probe.method = "GET"
  /\ probe.content_type = Html
  /\ probe.body = PageTitle404
  /\ ~verdict.ok
  /\ ~verdict.retryable

(***************************************************************************)
(* C7: a GET probe with status < 400, an HTML content type and a body on   *)
(* which the soft-404 heuristic fires is a failure, not retryable, whose   *)
(* detail is the reason the heuristic gave; and the heuristic is called    *)
(* for no probe that is not a GET probe with a status < 400 and an HTML    *)
(* content type.                                                           *)
(***************************************************************************)
C7_GetHtmlBelow400 ==
  /\ probe.method = "GET"
  /\ probe.status # NoStatus
  /\ probe.status < 400
  /\ is_html(probe.content_type)

C7_Soft404OnlyOnGetHtml ==
  pc = "evaluated"
    => /\ (C7_GetHtmlBelow400 /\ not_found_heuristic(probe.body) # None)
            => /\ ~verdict.ok
               /\ ~verdict.retryable
               /\ verdict.detail = not_found_heuristic(probe.body)
       /\ events # <<>> => C7_GetHtmlBelow400

C7_Witness ==
  /\ pc = "evaluated"
  /\ probe.status = 200
  /\ probe.method = "GET"
  /\ probe.content_type = HtmlUpper
  /\ probe.body = PageTitle404
  /\ verdict.detail = "HTML title indicates 404"
  /\ events = <<Event("inspect GET", 0)>>

(***************************************************************************)
(* C8 as stated: when the HEAD or the GET response of an attempt is HTML,  *)
(* the attempt sends a GET and the heuristic inspects the body of the GET. *)
(***************************************************************************)
C8_HtmlSeen ==
  \/ head_probe.method = "HEAD" /\ is_html(head_probe.content_type)
  \/ GetIssued(attempt) /\ is_html(get_probe.content_type)

C8_HtmlMeansGetInspected ==
  (pc = "decide" /\ C8_HtmlSeen) => (GetIssued(attempt) /\ GetInspected(attempt))

(***************************************************************************)
(* C8 amended: when the HEAD or the GET response of an attempt is HTML,    *)
(* the attempt sends a GET; the heuristic inspects the body of the GET     *)
(* exactly when the GET response has a status < 400 and is HTML.           *)
(***************************************************************************)
C8_HtmlMeansGetSent ==
  (pc = "decide" /\ C8_HtmlSeen)
    => /\ GetIssued(attempt)
       /\ GetInspected(attempt) <=> /\ get_probe.status # NoStatus
                                    /\ get_probe.status < 400
                                    /\ is_html(get_probe.content_type)

C8_Witness ==
  /\ pc = "decide"
  /\ is_html(head_probe.content_type)
  /\ head_result.ok
  /\ get_probe.status = 200
  /\ get_probe.body = PageH1
  /\ Requests(attempt) = <<Event("HEAD", attempt), Event("GET", attempt)>>
  /\ GetInspected(attempt)

(***************************************************************************)
(* C9 as stated: the h1 rule of the heuristic fires exactly when the text  *)
(* of some h1 element, its embedded tags stripped and its whitespace       *)
(* collapsed, is one of "404", "404 not found", "page not found", "not     *)
(* found", whatever the case of the letters.  (The rule is reached when    *)
(* no title rule fires.)                                                   *)
(***************************************************************************)
C9_Phrases == { <<"404">>, <<"404", " ", "not", " ", "found">>,
                <<"page", " ", "not", " ", "found">>, <<"not", " ", "found">> }

\* the h1 elements: an opening tag and the first closing tag after it
C9_H1Elements(s) ==
  { e \in (1..Len(s)) \X (1..Len(s)) :
      /\ e[1] < e[2]
      /\ Lower(s[e[1]]) \in H1OpenToks
      /\ Lower(s[e[2]]) \in H1CloseToks
      /\ \A m \in (e[1] + 1)..(e[2] - 1) : Lower(s[m]) \notin H1CloseToks }

C9_Inner(s, e) == SubSeq(s, e[1] + 1, e[2] - 1)

C9_StripTags(s) == SelectSeq(s, LAMBDA t : ~TAG_RE(t))

C9_Text(s) == normalize_spaces(LowerSeq(s))

C9_TitleRuleFired ==
  reason \in {"HTML title indicates 404", "HTML title indicates missing page"}

C9_H1RuleStripsTags ==
  (pc = "heuristic done" /\ ~C9_TitleRuleFired)
    => (reason = "HTML h1 indicates missing page"
          <=> \E e \in C9_H1Elements(html) :
                 C9_Text(C9_StripTags(C9_Inner(html, e))) \in C9_Phrases)

(***************************************************************************)
(* C9 amended: the h1 rule fires exactly when some h1 element holds no     *)
(* embedded tag and its text, whitespace collapsed and trimmed, is one of  *)
(* the four phrases, whatever the case of the letters: the opening tag is  *)
(* followed by whitespace, the phrase, whitespace and the closing tag,     *)
(* and by nothing else.  A phrase inside a longer text, or with a tag      *)
(* beside it, does not fire the rule.                                      *)
(***************************************************************************)
C9_H1RuleExactNoTags ==
  (pc = "heuristic done" /\ ~C9_TitleRuleFired)
    => (reason = "HTML h1 indicates missing page"
          <=> \E e \in C9_H1Elements(html) :
                 /\ \A m \in (e[1] + 1)..(e[2] - 1) : ~TAG_RE(html[m])
                 /\ C9_Text(C9_Inner(html, e)) \in C9_Phrases)

C9_Witness ==
  /\ pc = "heuristic done"
  /\ html = <<"<h1>", " ", "Not", " ", " ", "found", "</H1>">>
  /\ reason = "HTML h1 indicates missing page"

(***************************************************************************)
(* C10: an entry of the dataset that is not a string, is empty once        *)
(* trimmed, has a scheme other than http and https, or has an empty host   *)
(* is put among the invalid entries by load_unique_urls and not among the  *)
(* URLs; no request is ever sent for it; its BROKEN parse line is printed  *)
(* before the first check, and every BROKEN line printed is counted in     *)
(* broken.                                                                 *)
(***************************************************************************)
C10_Invalid(raw) ==
  \/ ~raw.str
  \/ raw.scheme = "" /\ raw.netloc = ""
  \/ raw.scheme \notin {"http", "https"}
  \/ raw.netloc = ""

C10_Message(e) ==
  IF ~e.raw.str THEN InvalidMsg(e.rule, "non-string URL entry", NoUrl)
  ELSE IF e.raw.scheme = "" /\ e.raw.netloc = ""
  THEN InvalidMsg(e.rule, "empty URL entry", NoUrl)
  ELSE InvalidMsg(e.rule, "invalid URL", [e.raw EXCEPT !.pad = FALSE])

C10_BrokenLines == SelectSeq(printed, LAMBDA l : l.line # "summary" /\ l.marker = "BROKEN")

C10_InvalidEntriesNeverProbed ==
  /\ broken = Len(C10_BrokenLines)
  /\ \A k \in 1..Len(dataset) :
       C10_Invalid(dataset[k].raw)
         => /\ \A u \in requested \cup Range(checked) :
                  u # dataset[k].raw /\ u # [dataset[k].raw EXCEPT !.pad = FALSE]
            /\ pc # "load" => /\ C10_Message(dataset[k]) \in Range(invalid_entries)
                              /\ \A u \in Range(urls) :
                                   u # [dataset[k].raw EXCEPT !.pad = FALSE]
            /\ pc \notin {"load", "invalid"}
                 => ParseLine(C10_Message(dataset[k])) \in Range(printed)

C10_Witness ==
  /\ pc = "done"
  /\ Entry("R1", Str("ftp", "a.example", FALSE)) \in Range(dataset)
  /\ requested = {UrlA}
  /\ ParseLine(InvalidMsg("R1", "invalid URL", Str("ftp", "a.example", FALSE)))
       \in Range(printed)
  /\ broken >= 1
  /\ exit_code = 1

(***************************************************************************)
(* C11: every URL of the dataset that is valid is passed to                *)
(* check_with_retries at most once and gets at most one line of the        *)
(* report, however many entries cite it, and nothing else is passed to     *)
(* check_with_retries; when main has printed the summary, each of them     *)
(* has had exactly one run and has exactly one line.                       *)
(***************************************************************************)
C11_ValidUrls ==
  { [dataset[k].raw EXCEPT !.pad = FALSE] :
      k \in {j \in 1..Len(dataset) : ~C10_Invalid(dataset[j].raw)} }

C11_Runs(u) == Cardinality({k \in 1..Len(checked) : checked[k] = u})

C11_Lines(u) ==
  Cardinality({k \in 1..Len(printed) : printed[k].line = "url" /\ printed[k].url = u})

C11_OneRunOneLinePerUrl ==
  /\ Range(checked) \subseteq C11_ValidUrls
  /\ \A u \in C11_ValidUrls :
       /\ C11_Runs(u) <= 1
       /\ C11_Lines(u) <= C11_Runs(u)
       /\ pc = "done" => C11_Runs(u) = 1 /\ C11_Lines(u) = 1

C11_Witness ==
  /\ pc = "done"
  /\ dataset = <<Entry("R1", UrlA), Entry("R2", Str("http", "a.example", TRUE))>>
  /\ checked = <<UrlA>>
  /\ C11_Lines(UrlA) = 1
  /\ Len(printed) = 2

(***************************************************************************)
(* C12: when main has printed the summary, the summary is the last line,   *)
(* its checked count is its ok count plus its broken count, its broken     *)
(* count is the number of parse lines plus the number of URL lines marked  *)
(* BROKEN, its ok count is the number of URL lines marked OK, and the exit *)
(* status is 1 when the broken count is positive and 0 when it is 0.       *)
(***************************************************************************)
C12_Count(line, marker) ==
  Cardinality({k \in 1..Len(printed) : printed[k].line = line /\ printed[k].marker = marker})

C12_SummaryAddsUp ==
  pc = "done"
    => LET last == printed[Len(printed)]
       IN  /\ last.line = "summary"
           /\ last.checked = last.ok + last.broken
           /\ last.broken = C12_Count("parse", "BROKEN") + C12_Count("url", "BROKEN")
           /\ last.ok = C12_Count("url", "OK")
           /\ last.broken > 0 => exit_code = 1
           /\ last.broken = 0 => exit_code = 0

C12_Witness ==
  /\ pc = "done"
  /\ printed[Len(printed)] = SummaryLine(2, 1, 1)
  /\ C12_Count("url", "OK") = 1
  /\ C12_Count("parse", "BROKEN") = 1
  /\ exit_code = 1

(***************************************************************************)
(* C13 as stated: when main has printed the summary, there are as many     *)
(* BROKEN parse lines as the dataset has invalid entries, and the checked  *)
(* count of the summary is the number of distinct valid URLs plus the      *)
(* number of invalid entries.                                              *)
(***************************************************************************)
C13_InvalidEntries ==
  Cardinality({k \in 1..Len(dataset) : C10_Invalid(dataset[k].raw)})

C13_EveryInvalidEntryReported ==
  pc = "done"
    => /\ C12_Count("parse", "BROKEN") = C13_InvalidEntries
       /\ printed[Len(printed)].checked = Cardinality(C11_ValidUrls) + C13_InvalidEntries

\* two entries of rule R1 that are not strings: one line, checked=1
C13_Witness ==
  /\ pc = "done"
  /\ dataset = <<Entry("R1", NonString), Entry("R1", NonString)>>
  /\ printed = << ParseLine(InvalidMsg("R1", "non-string URL entry", NoUrl)),
                  SummaryLine(1, 0, 1) >>

(***************************************************************************)
(* C14: the report is, in this order, the parse lines of the invalid       *)
(* entries in sorted order, the lines of the URLs in sorted order, and the *)
(* summary, which is the last line; the parse lines are all printed before *)
(* the first check, and the line of a URL is printed only once             *)
(* check_with_retries has returned for it: while a URL is being checked    *)
(* the report holds the lines of the URLs before it and no line for it.    *)
(***************************************************************************)
C14_InOrder(s) ==
  \A i, j \in 1..Len(s) : i < j => LexLess(SortKey(s[i]), SortKey(s[j]))

C14_ReportInOrder ==
  pc # "load"
    => LET n == Len(invalid_entries)
       IN  /\ C14_InOrder(invalid_entries)
           /\ C14_InOrder(urls)
           /\ \A k \in 1..Len(printed) :
                IF k <= n THEN printed[k] = ParseLine(invalid_entries[k])
                ELSE IF k <= n + Len(urls)
                THEN printed[k].line = "url" /\ printed[k].url = urls[k - n]
                ELSE printed[k].line = "summary" /\ k = n + Len(urls) + 1 /\ pc = "done"
           /\ pc = "done" => Len(printed) = n + Len(urls) + 1
           /\ pc \in {"urls", "head", "get", "decide", "report", "raised", "crashed"}
                => Len(printed) = n + idx - 1

C14_Witness ==
  /\ pc = "done"
  /\ dataset = MixedDataset
  /\ Len(printed) = 6
  /\ printed[1] = ParseLine(InvalidMsg("R1", "invalid URL", Str("ftp", "a.example", FALSE)))
  /\ printed[2] = ParseLine(InvalidMsg("R1", "non-string URL entry", NoUrl))
  /\ printed[3] = ParseLine(InvalidMsg("R2", "non-string URL entry", NoUrl))
  /\ printed[4].url = UrlA
  /\ printed[5].url = UrlB
  /\ printed[6].line = "summary"

(***************************************************************************)
(* C15: with retries = 0 and a dataset whose entries give one valid URL    *)
(* and no invalid entry, when every request sent fails without a status    *)
(* (DNS failure): check_with_retries returns after one check_once call, a  *)
(* HEAD and a GET, with no sleep; the report is the line of the URL,       *)
(* BROKEN, with the status "-" and attempts=1, then the summary checked=1  *)
(* ok=0 broken=1; the exit status is 1.                                    *)
(***************************************************************************)
C15_Case ==
  /\ retries = 0
  /\ Cardinality(C11_ValidUrls) = 1
  /\ C13_InvalidEntries = 0
  /\ no_status_only

C15_DnsFailureEndToEnd ==
  /\ (pc = "report" /\ C15_Case)
       => /\ Steps = <<Event("check_once", 1)>>
          /\ Requests(1) = <<Event("HEAD", 1), Event("GET", 1)>>
          /\ Verdicts = <<Event("retryable failure", 1)>>
          /\ returned = 1
  /\ (pc = "done" /\ C15_Case)
       => /\ Len(printed) = 2
          /\ printed[1].line = "url"
          /\ printed[1].url \in C11_ValidUrls
          /\ printed[1].marker = "BROKEN"
          /\ printed[1].status = "-"
          /\ printed[1].attempts = 1
          /\ printed[2] = SummaryLine(1, 0, 1)
          /\ exit_code = 1

C15_Witness ==
  /\ pc = "done"
  /\ C15_Case
  /\ dataset = <<Entry("R2", UrlB)>>
  /\ requested = {UrlB}
  /\ printed[1].detail = "URLError: [Errno -2] Name or service not known"
  /\ printed[2] = SummaryLine(1, 0, 1)
  /\ exit_code = 1

(***************************************************************************)
(* C16: when check_with_retries returns a failure that is retryable        *)
(* (a network failure, a status of the transient set), all retries + 1     *)
(* attempts have been made: a failure returned with an attempt count       *)
(* below retries + 1 is not retryable.                                     *)
(***************************************************************************)
C16_RetryableFailureOnlyWhenExhausted ==
  (pc = "report" /\ ~result.ok)
    => /\ returned < retries + 1 => ~result.retryable
       /\ result.retryable => /\ returned = retries + 1
                               /\ Len(Verdicts) = retries + 1
                               /\ \A k \in 1..Len(Verdicts) :
                                    Verdicts[k] = Event("retryable failure", k)

C16_Witness ==
  /\ pc = "report"
  /\ retries = 2
  /\ ~result.ok
  /\ result.retryable
  /\ result.status = 503
  /\ returned = 3
  /\ Len(Verdicts) = 3

(***************************************************************************)
(* C17: when check_with_retries returns a successful verdict, it is the    *)
(* verdict of the last check_once call and the only successful one; with   *)
(* k the attempt that gave it, there were exactly k check_once calls and   *)
(* k - 1 sleeps, one between two consecutive calls and none after the      *)
(* last, and the attempt count returned is k.                              *)
(***************************************************************************)
C17_ReturnsOnFirstSuccess ==
  (pc = "report" /\ result.ok)
    => /\ returned >= 1
       /\ Len(Verdicts) = returned
       /\ Verdicts[returned] = Event("ok", returned)
       /\ events[Len(events)] = Event("ok", returned)
       /\ \A k \in 1..(returned - 1) : Verdicts[k].ev # "ok"
       /\ Steps = C1_Expected(returned - 1, retry_delay)

C17_Witness ==
  /\ pc = "report"
  /\ retries = 2
  /\ result.ok
  /\ returned = 2
  /\ Steps = <<Event("check_once", 1), Event("sleep", retry_delay), Event("check_once", 2)>>

(***************************************************************************)
(* C18 as stated: whatever the value of --retries, the verdict that        *)
(* check_with_retries returns was given by a check_once call, the attempt  *)
(* count is at least 1 and at most retries + 1, and the verdict is not the *)
(* placeholder whose detail is "uninitialized".                            *)
(***************************************************************************)
C18_EveryUrlProbed ==
  pc = "report"
    => /\ Len(Verdicts) >= 1
       /\ returned >= 1
       /\ returned <= retries + 1
       /\ result.detail # "uninitialized"

\* --retries -1: the placeholder is reported, no request was sent
C18_Witness ==
  /\ pc = "done"
  /\ retries = -1
  /\ dataset = <<Entry("R1", UrlA)>>
  /\ requested = {}
  /\ printed[1] = [line |-> "url", marker |-> "BROKEN", status |-> "-", method |-> "HEAD",
                    url |-> UrlA, detail |-> "uninitialized", attempts |-> 0,
                    redirect |-> NoUrl]
  /\ printed[2] = SummaryLine(1, 0, 1)

(***************************************************************************)
(* C19 as stated: whatever urlopen does with a request, fetch returns a    *)
(* ProbeResult and raises nothing, so that no run ends anywhere but after  *)
(* the summary.                                                            *)
(***************************************************************************)
C19_NoRequestFailureEscapes == pc \notin {"raised", "crashed"}

\* a malformed response to the HEAD of the only URL: no line is printed
C19_Witness ==
  /\ pc = "crashed"
  /\ dataset = <<Entry("R1", UrlA)>>
  /\ retries = 0
  /\ requested = {UrlA}
  /\ printed = <<>>
  /\ exit_code = 1

(***************************************************************************)
(* C20: when check_once has returned through the tie-break (the HEAD has a *)
(* status >= 400, the GET has no status), what check_with_retries does     *)
(* next depends on the HEAD status alone: when it is one of 408, 429, 500, *)
(* 502, 503, 504 and attempts remain, it sleeps and makes the next         *)
(* attempt; otherwise (a 404 or a 405, say) it returns the HEAD verdict at *)
(* once with the count of this attempt, whatever attempts remain and       *)
(* although the GET failed on the network.                                 *)
(***************************************************************************)
C20_TieBreak ==
  /\ pc = "decide"
  /\ head_probe.status >= 400
  /\ GetIssued(attempt)
  /\ get_probe.status = NoStatus

C20_RetryFollowsHeadStatus ==
  [][C20_TieBreak
       => IF head_probe.status \in {408, 429, 500, 502, 503, 504} /\ attempt < retries + 1
          THEN /\ pc' = "head"
               /\ attempt' = attempt + 1
               /\ events' = Append(events, Event("sleep", retry_delay * attempt))
          ELSE /\ pc' = "report"
               /\ returned' = attempt
               /\ result' = result
               /\ result.method = "HEAD"
               /\ result.status = head_probe.status
               /\ ~result.ok
               /\ events' = events]_vars

C20_Witness ==
  /\ pc = "report"
  /\ retries = 2
  /\ returned = 1
  /\ result.method = "HEAD"
  /\ result.status = 405
  /\ Requests(1) = <<Event("HEAD", 1), Event("GET", 1)>>
  /\ Verdicts = <<Event("permanent failure", 1)>>

(***************************************************************************)
(* C21: every verdict that evaluate_probe gives (on each probe of Probes,  *)
(* and on the HEAD and GET probes of every attempt), that check_once       *)
(* returns and that check_with_retries returns is well formed: when it is  *)
(* ok it is not retryable and has a status, which is below 400; when it    *)
(* has no status it is not ok and it is retryable.  The verdicts returned  *)
(* through the tie-break and the relabelled ones are among them.           *)
(***************************************************************************)
C21_WellFormed(res) ==
  /\ res.ok => (~res.retryable /\ res.status # NoStatus /\ res.status < 400)
  /\ res.status = NoStatus => (~res.ok /\ res.retryable)

C21_VerdictsWellFormed ==
  /\ pc = "load" => \A p \in Probes : C21_WellFormed(evaluate_probe(p))
  /\ head_probe.method = "HEAD"
       => head_result = evaluate_probe(head_probe) /\ C21_WellFormed(head_result)
  /\ (pc = "decide" /\ GetIssued(attempt)) => C21_WellFormed(evaluate_probe(get_probe))
  /\ pc = "decide" => C21_WellFormed(result)
  /\ pc = "report" => C21_WellFormed(result)

\* a tie-break: the verdict returned is the HEAD's, the GET's has no status
C21_Witness ==
  /\ pc = "report"
  /\ retries = 1
  /\ returned = 2
  /\ result.method = "HEAD"
  /\ result.status = 503
  /\ result.retryable
  /\ ~result.ok
  /\ Requests(2) = <<Event("HEAD", 2), Event("GET", 2)>>

(***************************************************************************)
(* C22: the requests of an attempt are a HEAD, or a HEAD and then a GET,   *)
(* and nothing else; the GET is sent only when the HEAD has returned and   *)
(* evaluate_probe has given its verdict; for retries >= 0 the requests of  *)
(* a check_with_retries call that has returned number at least 1 and at    *)
(* most 2 * (retries + 1); a request is sent only for the URL being        *)
(* checked, before check_with_retries has returned for it and before its   *)
(* line is printed, and never once main is past the URL.                   *)
(***************************************************************************)
C22_Sent == Len(SelectSeq(events, LAMBDA e : e.ev \in {"HEAD", "GET"}))

C22_AttemptShape ==
  \A n \in 1..attempt :
    \/ Requests(n) = <<Event("HEAD", n)>>
    \/ Requests(n) = <<Event("HEAD", n), Event("GET", n)>>
    \/ Requests(n) = <<>> /\ n = attempt /\ pc = "head"

C22_State ==
  /\ C22_AttemptShape
  /\ pc = "get" => /\ head_probe.method = "HEAD"
                    /\ head_result = evaluate_probe(head_probe)
                    /\ Requests(attempt) = <<Event("HEAD", attempt)>>
  /\ (pc = "report" /\ retries >= 0) => (1 <= C22_Sent /\ C22_Sent <= 2 * (retries + 1))
  /\ pc \in {"urls", "done"} => C22_Sent = 0
  /\ \A k \in 1..Len(printed) :
       (printed[k].line = "url" /\ pc \in {"head", "get"}) => printed[k].url # urls[idx]

C22_Step ==
  (requested' # requested \/ C22_Sent' > C22_Sent)
    => /\ pc \in {"head", "get"}
       /\ returned = 0
       /\ requested' = requested \cup {urls[idx]}
       /\ C22_Sent' = C22_Sent + 1

C22_HeadThenGetBounded == [](C22_State) /\ [][C22_Step]_vars

C22_Witness ==
  /\ pc = "report"
  /\ retries = 2
  /\ idx = 2
  /\ returned = 3
  /\ C22_Sent = 6
  /\ \A n \in 1..3 : Requests(n) = <<Event("HEAD", n), Event("GET", n)>>

=============================================================================
